---- MODULE Spec2Model ----
(***************************************************************************)
(* State-machine model of the cooperative ELO simulation of                *)
(* src/lib/elo_swarm.py: the rating functions, Agent, and                  *)
(* ELOSimulation (process_interaction, record_ratings, run, get_results).  *)
(*                                                                         *)
(* Ratings, stakes and escrow are Python floats.  They are modelled as     *)
(* fixed-point integers counting 1/Scale rating points; a float product    *)
(* (available * stake_willingness) is rounded to that grain.               *)
(***************************************************************************)
EXTENDS Integers, Sequences, FiniteSets, TLC

(* ---------------- bounds of the model ---------------- *)
\* process_interaction calls explored after the initial state
MaxInteractions == 1
\* snapshots explored in rating_history
MaxSnapshots == 3

(* ---------------- representation ---------------- *)
\* fixed-point grain of a float rating: 1/Scale of a rating point
Scale == 4

(* ---------------- ELO constants ---------------- *)
DEFAULT_RATING == 1200
MINIMUM_RATING == 100
K_NEW == 32
K_INTERMEDIATE == 24
K_ESTABLISHED == 16
TRANSACTIONS_NEW == 30
TRANSACTIONS_INTERMEDIATE == 100
\* default of the max_stake parameter of Agent.get_stake
MAX_STAKE == 100

Max(a, b) == IF a >= b THEN a ELSE b
Min(a, b) == IF a <= b THEN a ELSE b

\* a number of rating points as a fixed-point value
Pts(n) == n * Scale

\* Python round() of the non-negative rational n/d: nearest, ties to even
RoundHalfEven(n, d) ==
    LET q == n \div d
        r == n % d
    IN  IF 2 * r < d THEN q
        ELSE IF 2 * r > d THEN q + 1
        ELSE IF q % 2 = 0 THEN q ELSE q + 1

(***************************************************************************)
(* calculate_expected(self, opp) = 1 / (1 + 10^((opp - self)/400)) is      *)
(* strictly increasing in d = self - opp, so round(k * expected) is a step *)
(* function of d.  ExpectedSteps(k)[m+1] is the least fixed-point d with   *)
(* k * expected > m + 1/2, i.e. with d/Scale > 400*log10((2m+1)/(2k-2m-1)) *)
(* (never an equality: the right-hand side is irrational).  k/2 occurs     *)
(* for halved gains: (k * x) / 2 = (k/2) * x.                              *)
(***************************************************************************)
ExpectedSteps(k) ==
    CASE k = 32 -> <<-2878, -2093, -1715, -1457, -1257, -1092, -949, -822,
                     -706, -599, -497, -401, -308, -218, -130, -43,
                     44, 131, 219, 309, 402, 498, 600, 707,
                     823, 950, 1093, 1258, 1458, 1716, 2094, 2879>>
      [] k = 24 -> <<-2675, -1881, -1495, -1228, -1018, -842, -688, -547,
                     -417, -293, -174, -57, 58, 175, 294, 418,
                     548, 689, 843, 1019, 1229, 1496, 1882, 2676>>
      [] k = 16 -> <<-2386, -1576, -1171, -884, -651, -449, -263, -86,
                     87, 264, 450, 652, 885, 1172, 1577, 2387>>
      [] k = 12 -> <<-2178, -1352, -927, -616, -354, -116,
                     117, 355, 617, 928, 1353, 2179>>
      [] k = 8  -> <<-1881, -1018, -547, -174, 175, 548, 1019, 1882>>

\* round(k * calculate_expected(self_rating, opponent_rating)), in points
RoundKExpected(k, self_rating, opponent_rating) ==
    LET steps == ExpectedSteps(k)
        d == self_rating - opponent_rating
    IN  Cardinality({m \in 1..Len(steps) : d >= steps[m]})

\* fault injection: the tiers are in the opposite order
get_k_factor_reversed(transactions) ==
    IF transactions < TRANSACTIONS_NEW THEN K_ESTABLISHED
    ELSE IF transactions < TRANSACTIONS_INTERMEDIATE THEN K_INTERMEDIATE
    ELSE K_NEW

\* fault injection: the thresholds are inclusive
get_k_factor_inclusive(transactions) ==
    IF transactions <= TRANSACTIONS_NEW THEN K_NEW
    ELSE IF transactions <= TRANSACTIONS_INTERMEDIATE THEN K_INTERMEDIATE
    ELSE K_ESTABLISHED

get_k_factor(transactions) ==
    IF transactions < TRANSACTIONS_NEW THEN K_NEW
    ELSE IF transactions < TRANSACTIONS_INTERMEDIATE THEN K_INTERMEDIATE
    ELSE K_ESTABLISHED

\* fault injection: the gain is not raised to 1
calculate_completion_gain_unfloored(self_rating, opponent_rating, k, halve) ==
    RoundKExpected(IF halve THEN k \div 2 ELSE k, opponent_rating, self_rating)

\* fault injection: the gain is never halved
calculate_completion_gain_unhalved(self_rating, opponent_rating, k, halve) ==
    Max(1, RoundKExpected(k, opponent_rating, self_rating))

\* gain = k * (1 - expected); 1 - expected(self, opp) = expected(opp, self)
calculate_completion_gain(self_rating, opponent_rating, k, halve) ==
    Max(1, RoundKExpected(IF halve THEN k \div 2 ELSE k,
                          opponent_rating, self_rating))

calculate_dispute_loss(self_rating, opponent_rating, k) ==
    Max(1, RoundKExpected(k, self_rating, opponent_rating))

(* ---------------- Agent ---------------- *)
AgentTypes == {"reliable", "unreliable", "malicious", "selective"}

\* Agent(id, agent_type, reliability, stake_willingness): the other fields
\* take the dataclass defaults
Agent(id, agent_type, reliability, stake_willingness) ==
    [id |-> id, agent_type |-> agent_type, rating |-> Pts(DEFAULT_RATING),
     transactions |-> 0, completions |-> 0, disputes_won |-> 0,
     disputes_lost |-> 0, escrowed |-> 0,
     reliability |-> reliability, stake_willingness |-> stake_willingness]

available_elo(a) == Max(0, a.rating - a.escrowed - Pts(MINIMUM_RATING))

\* fault injection: the stake is not capped at MAX_STAKE
get_stake_uncapped(a) ==
    RoundHalfEven(available_elo(a) * a.stake_willingness, 100)

\* stake_willingness is held in percent
get_stake(a) ==
    Min(RoundHalfEven(available_elo(a) * a.stake_willingness, 100),
        Pts(MAX_STAKE))

(***************************************************************************)
(* will_complete: the set of answers the random draw can produce.          *)
(* random.random() ranges over [0, 1).  reliable/unreliable/selective      *)
(* compare it with a probability strictly between 0 and 1; malicious       *)
(* completes iff random() > defect_prob, defect_prob =                     *)
(* 0.5 + (counterparty.rating - 1200)/2000, which is < 0 below rating 200  *)
(* and >= 1 from rating 2200 on.                                           *)
(***************************************************************************)
will_complete(a, counterparty) ==
    IF a.agent_type = "malicious"
    THEN {b \in BOOLEAN :
            \/ b /\ counterparty.rating < Pts(2200)
            \/ ~b /\ counterparty.rating >= Pts(200)}
    ELSE BOOLEAN

(* ---------------- ELOSimulation.process_interaction ---------------- *)
\* A simulator value s carries the fields process_interaction touches:
\* s.agents, s.total_completions, s.total_disputes.

\* "Determine stakes": proposer.get_stake() if self.enable_staking else 0
determine_stake(a, enable) == IF enable THEN get_stake(a) ELSE 0

\* "Escrow stakes"
escrow_stakes(s, p, a, proposer_stake, acceptor_stake) ==
    [s EXCEPT !.agents[p].escrowed = @ + proposer_stake,
              !.agents[a].escrowed = @ + acceptor_stake]

\* "Return stakes" (both complete)
return_stakes(s, p, a, proposer_stake, acceptor_stake) ==
    [s EXCEPT !.agents[p].escrowed = @ - proposer_stake,
              !.agents[a].escrowed = @ - acceptor_stake]

\* fault injection: the burned stakes are left in escrow
burn_stakes_kept(s, p, a, proposer_stake, acceptor_stake) == s

\* "Stakes burned (already escrowed, just clear)" (mutual fault)
burn_stakes(s, p, a, proposer_stake, acceptor_stake) ==
    [s EXCEPT !.agents[p].escrowed = @ - proposer_stake,
              !.agents[a].escrowed = @ - acceptor_stake]

\* fault injection: each escrow is reduced by the other party's stake
clear_escrows_swapped(s, p, a, proposer_stake, acceptor_stake) ==
    [s EXCEPT !.agents[p].escrowed = @ - acceptor_stake,
              !.agents[a].escrowed = @ - proposer_stake]

\* "Clear escrows" (one party at fault)
clear_escrows(s, p, a, proposer_stake, acceptor_stake) ==
    [s EXCEPT !.agents[p].escrowed = @ - proposer_stake,
              !.agents[a].escrowed = @ - acceptor_stake]

\* fault injection: the acceptor's gain is computed after the proposer's rating rose
settle_complete_sequential(s, p, a, k_proposer, k_acceptor, halve) ==
    LET gain_proposer == calculate_completion_gain(
            s.agents[p].rating, s.agents[a].rating, k_proposer, halve)
        s1 == [s EXCEPT !.agents[p].rating =
                  Max(Pts(MINIMUM_RATING), @ + Pts(gain_proposer))]
        gain_acceptor == calculate_completion_gain(
            s1.agents[a].rating, s1.agents[p].rating, k_acceptor, halve)
    IN  [s1 EXCEPT
           !.agents[a].rating = Max(Pts(MINIMUM_RATING), @ + Pts(gain_acceptor)),
           !.agents[p].completions = @ + 1,
           !.agents[a].completions = @ + 1,
           !.total_completions = @ + 1]

\* COMPLETE: both gains are computed, then both ratings are assigned
settle_complete(s, p, a, k_proposer, k_acceptor, halve) ==
    LET gain_proposer == calculate_completion_gain(
            s.agents[p].rating, s.agents[a].rating, k_proposer, halve)
        gain_acceptor == calculate_completion_gain(
            s.agents[a].rating, s.agents[p].rating, k_acceptor, halve)
    IN  [s EXCEPT
           !.agents[p].rating = Max(Pts(MINIMUM_RATING), @ + Pts(gain_proposer)),
           !.agents[a].rating = Max(Pts(MINIMUM_RATING), @ + Pts(gain_acceptor)),
           !.agents[p].completions = @ + 1,
           !.agents[a].completions = @ + 1,
           !.total_completions = @ + 1]

\* fault injection: the ratings are not clamped at MINIMUM_RATING
settle_mutual_fault_unclamped(s, p, a, k_proposer, k_acceptor, proposer_stake, acceptor_stake) ==
    LET loss_proposer == Pts(calculate_dispute_loss(
            s.agents[p].rating, s.agents[a].rating, k_proposer)) + proposer_stake
        loss_acceptor == Pts(calculate_dispute_loss(
            s.agents[a].rating, s.agents[p].rating, k_acceptor)) + acceptor_stake
    IN  [s EXCEPT
           !.agents[p].rating = @ - loss_proposer,
           !.agents[a].rating = @ - loss_acceptor,
           !.agents[p].disputes_lost = @ + 1,
           !.agents[a].disputes_lost = @ + 1,
           !.total_disputes = @ + 1]

\* fault injection: the acceptor's loss is computed after the proposer's rating fell
settle_mutual_fault_sequential(s, p, a, k_proposer, k_acceptor, proposer_stake, acceptor_stake) ==
    LET loss_proposer == Pts(calculate_dispute_loss(
            s.agents[p].rating, s.agents[a].rating, k_proposer)) + proposer_stake
        s1 == [s EXCEPT !.agents[p].rating =
                  Max(Pts(MINIMUM_RATING), @ - loss_proposer)]
        loss_acceptor == Pts(calculate_dispute_loss(
            s1.agents[a].rating, s1.agents[p].rating, k_acceptor)) + acceptor_stake
    IN  [s1 EXCEPT
           !.agents[a].rating = Max(Pts(MINIMUM_RATING), @ - loss_acceptor),
           !.agents[p].disputes_lost = @ + 1,
           !.agents[a].disputes_lost = @ + 1,
           !.total_disputes = @ + 1]

\* MUTUAL FAULT: both losses are computed, then both ratings are assigned
settle_mutual_fault(s, p, a, k_proposer, k_acceptor, proposer_stake, acceptor_stake) ==
    LET loss_proposer == Pts(calculate_dispute_loss(
            s.agents[p].rating, s.agents[a].rating, k_proposer)) + proposer_stake
        loss_acceptor == Pts(calculate_dispute_loss(
            s.agents[a].rating, s.agents[p].rating, k_acceptor)) + acceptor_stake
    IN  [s EXCEPT
           !.agents[p].rating = Max(Pts(MINIMUM_RATING), @ - loss_proposer),
           !.agents[a].rating = Max(Pts(MINIMUM_RATING), @ - loss_acceptor),
           !.agents[p].disputes_lost = @ + 1,
           !.agents[a].disputes_lost = @ + 1,
           !.total_disputes = @ + 1]

\* fault injection: the winner is credited the whole loss, not half of it
credit_winner_whole_loss(s, winner, loser, k_loser, loser_stake) ==
    LET win_gain == calculate_dispute_loss(
            s.agents[loser].rating, s.agents[winner].rating, k_loser)
    IN  [s EXCEPT !.agents[winner].rating =
            Max(Pts(MINIMUM_RATING), @ + Pts(win_gain) + loser_stake)]

\* ONE PARTY AT FAULT, first statement pair: win_gain is computed and the
\* winner's rating is assigned
credit_winner(s, winner, loser, k_loser, loser_stake) ==
    LET win_gain == RoundHalfEven(calculate_dispute_loss(
            s.agents[loser].rating, s.agents[winner].rating, k_loser), 2)
    IN  [s EXCEPT !.agents[winner].rating =
            Max(Pts(MINIMUM_RATING), @ + Pts(win_gain) + loser_stake)]

\* fault injection: the loser's stake is not deducted from its rating
debit_loser_loss_only(s, winner, loser, k_loser, loser_stake) ==
    LET lose_loss == Pts(calculate_dispute_loss(
            s.agents[loser].rating, s.agents[winner].rating, k_loser))
    IN  [s EXCEPT !.agents[loser].rating =
            Max(Pts(MINIMUM_RATING), @ - lose_loss)]

\* ONE PARTY AT FAULT, second statement pair: lose_loss is computed by a
\* second call of calculate_dispute_loss, which reads winner.rating as it
\* is at that point, and the loser's rating is assigned
debit_loser(s, winner, loser, k_loser, loser_stake) ==
    LET lose_loss == Pts(calculate_dispute_loss(
            s.agents[loser].rating, s.agents[winner].rating, k_loser)) + loser_stake
    IN  [s EXCEPT !.agents[loser].rating =
            Max(Pts(MINIMUM_RATING), @ - lose_loss)]

\* fault injection: the loser's disputes_lost is not incremented
settle_one_fault_loser_unrecorded(s, winner, loser, k_loser, loser_stake) ==
    LET s1 == credit_winner(s, winner, loser, k_loser, loser_stake)
        s2 == debit_loser(s1, winner, loser, k_loser, loser_stake)
    IN  [s2 EXCEPT !.agents[winner].disputes_won = @ + 1,
                   !.total_disputes = @ + 1]

\* fault injection: the dispute is not added to total_disputes
settle_one_fault_uncounted(s, winner, loser, k_loser, loser_stake) ==
    LET s1 == credit_winner(s, winner, loser, k_loser, loser_stake)
        s2 == debit_loser(s1, winner, loser, k_loser, loser_stake)
    IN  [s2 EXCEPT !.agents[winner].disputes_won = @ + 1,
                   !.agents[loser].disputes_lost = @ + 1]

settle_one_fault(s, winner, loser, k_loser, loser_stake) ==
    LET s1 == credit_winner(s, winner, loser, k_loser, loser_stake)
        s2 == debit_loser(s1, winner, loser, k_loser, loser_stake)
    IN  [s2 EXCEPT !.agents[winner].disputes_won = @ + 1,
                   !.agents[loser].disputes_lost = @ + 1,
                   !.total_disputes = @ + 1]

\* fault injection: the parties' counts are decremented
update_transactions_decremented(s, p, a) ==
    [s EXCEPT !.agents[p].transactions = @ - 1,
              !.agents[a].transactions = @ - 1]

\* fault injection: only the proposer's count is updated
update_transactions_proposer_only(s, p, a) ==
    [s EXCEPT !.agents[p].transactions = @ + 1]

\* fault injection: every agent's count is updated
update_transactions_everyone(s, p, a) ==
    [s EXCEPT !.agents = [id \in DOMAIN s.agents |->
                            [s.agents[id] EXCEPT !.transactions = @ + 1]]]

\* "Update transaction counts"
update_transactions(s, p, a) ==
    [s EXCEPT !.agents[p].transactions = @ + 1,
              !.agents[a].transactions = @ + 1]

\* process_interaction(proposer, acceptor) for the completion decisions
\* the two will_complete calls returned; p and a are distinct agent ids
process_interaction(s, p, a, proposer_completes, acceptor_completes, enable_stk, halve) ==
    LET proposer_stake == determine_stake(s.agents[p], enable_stk)
        acceptor_stake == determine_stake(s.agents[a], enable_stk)
        e == escrow_stakes(s, p, a, proposer_stake, acceptor_stake)
        k_proposer == get_k_factor(e.agents[p].transactions)
        k_acceptor == get_k_factor(e.agents[a].transactions)
        settled ==
            IF proposer_completes /\ acceptor_completes
            THEN return_stakes(
                     settle_complete(e, p, a, k_proposer, k_acceptor, halve),
                     p, a, proposer_stake, acceptor_stake)
            ELSE IF ~proposer_completes /\ ~acceptor_completes
            THEN burn_stakes(
                     settle_mutual_fault(e, p, a, k_proposer, k_acceptor,
                                         proposer_stake, acceptor_stake),
                     p, a, proposer_stake, acceptor_stake)
            ELSE IF proposer_completes
            THEN clear_escrows(
                     settle_one_fault(e, p, a, k_acceptor, acceptor_stake),
                     p, a, proposer_stake, acceptor_stake)
            ELSE clear_escrows(
                     settle_one_fault(e, a, p, k_proposer, proposer_stake),
                     p, a, proposer_stake, acceptor_stake)
    IN  update_transactions(settled, p, a)

\* the completion decisions the two will_complete calls can return; they
\* are taken after the stakes are escrowed and read ratings only
completion_outcomes(s, p, a) ==
    will_complete(s.agents[p], s.agents[a]) \X
    will_complete(s.agents[a], s.agents[p])

(* ---------------- ELOSimulation.__init__ ---------------- *)
\* the populations explored: <<n_reliable, n_unreliable, n_malicious,
\* n_selective>>
PopulationChoices ==
    {<<0, 0, 0, 0>>, <<1, 0, 0, 0>>, <<1, 1, 1, 0>>, <<0, 0, 0, 2>>}

\* the values random.uniform hands to the new agents of each type, as
\* <<reliability, stake_willingness>> in percent (reliable: reliability in
\* [0.85, 0.99], stake_willingness in [0.3, 0.7]; unreliable: [0.3, 0.6],
\* [0.1, 0.3]; malicious: 0.3, [0.0, 0.2]; selective: 0.9, [0.4, 0.8])
ParameterDraws ==
    {[reliable |-> <<90, 50>>, unreliable |-> <<45, 20>>,
      malicious |-> <<30, 0>>, selective |-> <<90, 60>>]}

PopulationSize(c) == c[1] + c[2] + c[3] + c[4]

\* agent ids are handed out in the order of the four creation loops
TypeOfId(c, id) ==
    IF id < c[1] THEN "reliable"
    ELSE IF id < c[1] + c[2] THEN "unreliable"
    ELSE IF id < c[1] + c[2] + c[3] THEN "malicious"
    ELSE "selective"

\* the simulator __init__ builds for the counts c and the draws d
NewSimulation(c, d) ==
    [agents |-> [id \in 0..(PopulationSize(c) - 1) |->
                    Agent(id, TypeOfId(c, id),
                          d[TypeOfId(c, id)][1], d[TypeOfId(c, id)][2])],
     total_completions |-> 0,
     total_disputes |-> 0]

(***************************************************************************)
(* Initial states.  Besides the freshly constructed simulator, the model   *)
(* starts from simulators on which process_interaction(agents[0],          *)
(* agents[1]) was already called w times with neither party completing     *)
(* (an outcome both will_complete calls can produce when neither agent is  *)
(* malicious): this brings ratings to the floor and transaction counts     *)
(* past the k-factor thresholds, which the explored depth cannot.          *)
(***************************************************************************)
\* The warm-ups explored for the counts c.  With three agents: 11 calls bring
\* a staking agent to within a point of the floor, 30 and 100 calls bring
\* agents 0 and 1 to the k-factor thresholds while agent 2 stays new.  With
\* two agents of one type (and so, here, of one stake_willingness): 10 calls
\* with staking bring both to the same rating with a fractional part.
WarmUpChoices(c) ==
    IF c = <<1, 1, 1, 0>> THEN {0, 11, 30, 100}
    ELSE IF c = <<0, 0, 0, 2>> THEN {0, 10}
    ELSE {0}

\* w calls in sequence; the bound variable t makes each intermediate
\* simulator a computed value before the remaining calls are applied to it
RECURSIVE WarmUp(_, _, _, _)
WarmUp(s, w, enable_stk, halve) ==
    IF w = 0 THEN s
    ELSE IF w = 1
    THEN process_interaction(s, 0, 1, FALSE, FALSE, enable_stk, halve)
    ELSE CHOOSE r \in {WarmUp(t, w - (w \div 2), enable_stk, halve) :
                          t \in {WarmUp(s, w \div 2, enable_stk, halve)}} : TRUE

CanWarmUp(c) ==
    /\ PopulationSize(c) >= 2
    /\ TypeOfId(c, 0) # "malicious"
    /\ TypeOfId(c, 1) # "malicious"

(* ---------------- state ---------------- *)
VARIABLES
    agents,                  \* self.agents: id -> Agent
    rating_history,          \* self.rating_history: sequence of snapshots
    total_completions,       \* self.total_completions
    total_disputes,          \* self.total_disputes
    halve_gains,             \* self.halve_gains
    enable_staking,          \* self.enable_staking
    pc,                      \* "idle": no call active; "pairing", "redraw": inside run()
    rounds,                  \* run(): argument
    interactions_per_round,  \* run(): argument
    round_num,               \* run(): index of the outer loop
    paired,                  \* run(): iterations of the inner loop done in this round
    proposer,                \* run(): the proposer kept while the acceptor is redrawn
    history_base,            \* history: len(self.rating_history) when run() was entered
    results,                 \* the SimulationResult values run() returned, in order
    raised,                  \* the exceptions run() raised, in order
    last,                    \* observation of the latest process_interaction call
    participated,            \* history: id -> process_interaction calls it was part of
    processed,               \* history: process_interaction calls made
    warm,                    \* history: calls made before the initial state
    inbox,                   \* chat: the lines of inbox.jsonl, in file order
    last_ts,                 \* chat: the number held by the last_ts file (0: no file)
    newdata,                 \* chat: the newdata semaphore file exists
    rpc,                     \* chat reader: where its active call stands ("idle": none)
    messages,                \* chat reader: `messages` of the call (inbox line numbers);
                             \*   once the call has returned, what it returned
    wpc,                     \* chat writer: "idle", or "appended" before it signals
    started_ts,              \* history: last_ts when the reader's latest call started
    initial_ts,              \* history: last_ts in the initial state
    delivered                \* history: line number -> calls that returned that line

\* the state of the simulator (lib/elo_swarm.py) and its observation
elo == <<agents, rating_history, total_completions, total_disputes,
         halve_gains, enable_staking, pc, rounds, interactions_per_round,
         round_num, paired, proposer, history_base, results, raised, last,
         participated, processed, warm>>
\* the state of a daemon directory (lib/chat.py, scripts/monitor.py) and
\* its observation
chat == <<inbox, last_ts, newdata, rpc, messages, wpc, started_ts,
          initial_ts, delivered>>

vars == <<elo, chat>>

runLocals == <<rounds, interactions_per_round, round_num, paired, proposer,
               history_base>>
config == <<halve_gains, enable_staking, warm>>

Ids == DOMAIN agents

Sim == [agents |-> agents, total_completions |-> total_completions,
        total_disputes |-> total_disputes]

NoCall == [called |-> FALSE]
NoAgent == -1

\* the simulator does no disk I/O: for it the daemon directory stays empty
\* and nobody reads or writes it
NoDaemonDirectory ==
    /\ inbox = <<>>
    /\ last_ts = 0
    /\ newdata = FALSE
    /\ rpc = "idle"
    /\ messages = <<>>
    /\ wpc = "idle"
    /\ started_ts = 0
    /\ initial_ts = 0
    /\ delivered = <<>>


Init ==
    \E c \in PopulationChoices, d \in ParameterDraws,
       h \in BOOLEAN, stk \in BOOLEAN :
      \E w \in WarmUpChoices(c) :
        /\ w > 0 => CanWarmUp(c)
        /\ LET s == WarmUp(NewSimulation(c, d), w, stk, h)
           IN  /\ agents = s.agents
               /\ total_completions = s.total_completions
               /\ total_disputes = s.total_disputes
        /\ halve_gains = h
        /\ enable_staking = stk
        /\ rating_history = <<>>
        /\ pc = "idle"
        /\ rounds = 0
        /\ interactions_per_round = 0
        /\ round_num = 0
        /\ paired = 0
        /\ proposer = NoAgent
        /\ history_base = 0
        /\ results = <<>>
        /\ raised = <<>>
        /\ last = NoCall
        /\ participated = [id \in 0..(PopulationSize(c) - 1) |->
                              IF id \in {0, 1} THEN w ELSE 0]
        /\ processed = w
        /\ warm = w
        /\ NoDaemonDirectory

(* ---------------- operations ---------------- *)
\* the effect of one process_interaction(p, a) call on the state, with the
\* observation of the call: its arguments, the outcomes drawn, the simulator
\* before it, and where the call came from ("idle": a direct call,
\* "pairing": run() with two distinct agents drawn, "redraw": run() after the
\* redraw loop)
Interaction(p, a, proposer_completes, acceptor_completes) ==
    LET s == process_interaction(Sim, p, a, proposer_completes,
                                 acceptor_completes, enable_staking, halve_gains)
    IN  /\ agents' = s.agents
        /\ total_completions' = s.total_completions
        /\ total_disputes' = s.total_disputes
        /\ last' = [called |-> TRUE, proposer |-> p, acceptor |-> a,
                    proposer_completes |-> proposer_completes,
                    acceptor_completes |-> acceptor_completes,
                    before |-> Sim, caller |-> pc]
        /\ participated' = [participated EXCEPT ![p] = @ + 1, ![a] = @ + 1]
        /\ processed' = processed + 1

\* a caller invokes sim.process_interaction(agents[p], agents[a]) directly.
\* The direct calls explored are those made before the simulator records
\* its first snapshot; after that, interactions are explored inside run().
ProcessInteraction(p, a) ==
    /\ pc = "idle"
    /\ processed - warm < MaxInteractions
    /\ rating_history = <<>>
    /\ p # a
    /\ \E o \in completion_outcomes(Sim, p, a) : Interaction(p, a, o[1], o[2])
    /\ UNCHANGED <<chat, rating_history, pc, runLocals, results, raised,
                   config>>

\* record_ratings(): append {a.id: a.rating for a in self.agents}
record_ratings(history, ags) ==
    Append(history, [id \in DOMAIN ags |-> ags[id].rating])

\* a caller invokes sim.record_ratings() directly
RecordRatings ==
    /\ pc = "idle"
    /\ Len(rating_history) < MaxSnapshots
    /\ rating_history' = record_ratings(rating_history, agents)
    /\ UNCHANGED <<chat, agents, total_completions, total_disputes, pc, runLocals,
                   results, raised, last, participated, processed, config>>

(* ---------------- ELOSimulation.get_results ---------------- *)
RECURSIVE SumOver(_, _)
\* sum(f[x] for x in S)
SumOver(f, S) ==
    IF S = {} THEN 0
    ELSE LET x == CHOOSE y \in S : TRUE
         IN  f[x] + SumOver(f, S \ {x})

RECURSIVE SortedRatings(_, _)
\* sorted([a.rating for a in self.agents]) over the ids in S
SortedRatings(ags, S) ==
    IF S = {} THEN <<>>
    ELSE LET x == CHOOSE y \in S : \A z \in S : ags[y].rating <= ags[z].rating
         IN  <<ags[x].rating>> \o SortedRatings(ags, S \ {x})

\* The float64 evaluation of "(2 * cumulative) / (n * sum(ratings))": with
\* whole-number ratings every product and sum is exact and the quotient is
\* the correctly rounded exact quotient, as "(n + 1) / n" is; a rating with
\* a fractional part (a stake is available * stake_willingness) makes the
\* sums round, and the quotient can land on the float below or above.  The
\* deviation is -1, 0 or 1 accordingly.
gini_deviations(ags) ==
    IF \A id \in DOMAIN ags : ags[id].rating % Scale = 0 THEN {0} ELSE {-1, 0, 1}

\* A float quotient is kept as the exact fraction <<numerator, denominator>>;
\* gini_coefficient is <<numerator, denominator, deviation>>, the exact
\* value of the formula and the deviation of its first quotient.
\* agents and rating_history of the result are the simulator's own list
\* objects, not copies: the result holds the references.
get_results(ags, history, completions, disputes, r, deviation) ==
    LET ratingOf == [id \in DOMAIN ags |-> ags[id].rating]
        initial_total == SumOver(history[1], DOMAIN history[1])
        final_total == SumOver(ratingOf, DOMAIN ags)
        ratings == SortedRatings(ags, DOMAIN ags)
        n == Len(ratings)
        cumulative == SumOver([i \in 1..n |-> i * ratings[i]], 1..n)
        total == SumOver(ratings, 1..n)
        present == {ags[id].agent_type : id \in DOMAIN ags}
    IN  IF initial_total = 0 \/ n * total = 0 \/ n = 0
        THEN [raises |-> "ZeroDivisionError"]
        ELSE [raises |-> "none",
              value |->
                [rounds |-> r,
                 agents |-> "self.agents",
                 rating_history |-> "self.rating_history",
                 total_completions |-> completions,
                 total_disputes |-> disputes,
                 inflation_rate |-> <<final_total - initial_total, initial_total>>,
                 \* 2*cumulative/(n*total) - (n+1)/n
                 gini_coefficient |->
                    <<2 * cumulative - (n + 1) * total, n * total, deviation>>,
                 \* statistics.mean per agent_type: <<sum, count>>
                 type_avg_ratings |->
                    [t \in present |->
                        LET of == {id \in DOMAIN ags : ags[id].agent_type = t}
                        IN  <<SumOver(ratingOf, of), Cardinality(of)>>]]]

(* ---------------- ELOSimulation.run ---------------- *)
\* the arguments <<rounds, interactions_per_round>> explored
RunChoices ==
    {<<0, 1>>, <<1, 1>>, <<2, 0>>, <<2, 1>>, <<11, 0>>}

\* the snapshots a call run(rounds = r) records
SnapshotsOfRun(r) ==
    2 + Cardinality({i \in 0..(r - 1) : i % 10 = 0})

\* run(rounds = r, interactions_per_round = ipr) is called: the first
\* snapshot is recorded and the loops are entered.  The calls explored are
\* those that fit into MaxInteractions and MaxSnapshots.
RunBegin(r, ipr) ==
    /\ pc = "idle"
    /\ (IF r > 0 /\ ipr > 0 THEN r * ipr ELSE 0)
          <= MaxInteractions - (processed - warm)
    /\ Len(rating_history) + SnapshotsOfRun(r) <= MaxSnapshots
    /\ rating_history' = record_ratings(rating_history, agents)
    /\ pc' = "pairing"
    /\ rounds' = r
    /\ interactions_per_round' = ipr
    /\ round_num' = 0
    /\ paired' = 0
    /\ proposer' = NoAgent
    /\ history_base' = Len(rating_history)
    /\ UNCHANGED <<chat, agents, total_completions, total_disputes, results, raised,
                   last, participated, processed, config>>

\* run() leaves by return or by exception
RunLeave ==
    /\ pc' = "idle"
    /\ rounds' = 0
    /\ interactions_per_round' = 0
    /\ round_num' = 0
    /\ paired' = 0
    /\ proposer' = NoAgent
    /\ history_base' = 0

\* random.choices(self.agents, weights, k=2) on an empty list
DrawFromNobody ==
    /\ pc = "pairing"
    /\ round_num < rounds
    /\ paired < interactions_per_round
    /\ Ids = {}
    /\ raised' = Append(raised, "IndexError")
    /\ RunLeave
    /\ UNCHANGED <<chat, agents, rating_history, total_completions, total_disputes,
                   results, last, participated, processed, config>>

\* random.choices draws two distinct agents (every weight is >= 1, so every
\* agent can be drawn) and the pair is processed
DrawPair(p, a) ==
    /\ pc = "pairing"
    /\ round_num < rounds
    /\ paired < interactions_per_round
    /\ p # a
    /\ \E o \in completion_outcomes(Sim, p, a) : Interaction(p, a, o[1], o[2])
    /\ paired' = paired + 1
    /\ UNCHANGED <<chat, rating_history, pc, rounds, interactions_per_round,
                   round_num, proposer, history_base, results, raised, config>>

\* random.choices draws the same agent twice: the while loop is entered
DrawSame(p) ==
    /\ pc = "pairing"
    /\ round_num < rounds
    /\ paired < interactions_per_round
    /\ pc' = "redraw"
    /\ proposer' = p
    /\ UNCHANGED <<chat, agents, rating_history, total_completions, total_disputes,
                   rounds, interactions_per_round, round_num, paired,
                   history_base, results, raised, last, participated,
                   processed, config>>

\* one iteration of "while proposer.id == acceptor.id" that draws the
\* proposer again
RedrawSame ==
    /\ pc = "redraw"
    /\ UNCHANGED vars

\* fault injection: the redrawn agent takes the proposer's place
RedrawOther_as_proposer(a) ==
    /\ pc = "redraw"
    /\ a # proposer
    /\ \E o \in completion_outcomes(Sim, a, proposer) :
          Interaction(a, proposer, o[1], o[2])
    /\ paired' = paired + 1
    /\ pc' = "pairing"
    /\ proposer' = NoAgent
    /\ UNCHANGED <<chat, rating_history, rounds, interactions_per_round, round_num,
                   history_base, results, raised, config>>

\* the iteration that draws another agent: the loop exits and the pair is
\* processed
RedrawOther(a) ==
    /\ pc = "redraw"
    /\ a # proposer
    /\ \E o \in completion_outcomes(Sim, proposer, a) :
          Interaction(proposer, a, o[1], o[2])
    /\ paired' = paired + 1
    /\ pc' = "pairing"
    /\ proposer' = NoAgent
    /\ UNCHANGED <<chat, rating_history, rounds, interactions_per_round, round_num,
                   history_base, results, raised, config>>

\* fault injection: a snapshot after every round
snapshot_due_every_round(n) == TRUE

\* "if round_num % 10 == 0": a snapshot is due after the pairings of round n
snapshot_due(n) == n % 10 = 0

\* the inner loop is over: "Record every 10 rounds", next round
EndRound ==
    /\ pc = "pairing"
    /\ round_num < rounds
    /\ paired >= interactions_per_round
    /\ rating_history' = IF snapshot_due(round_num)
                         THEN record_ratings(rating_history, agents)
                         ELSE rating_history
    /\ round_num' = round_num + 1
    /\ paired' = 0
    /\ UNCHANGED <<chat, agents, total_completions, total_disputes, pc, rounds,
                   interactions_per_round, proposer, history_base, results,
                   raised, last, participated, processed, config>>

\* the outer loop is over: final snapshot, return self.get_results(rounds)
Finish ==
    /\ pc = "pairing"
    /\ round_num >= rounds
    /\ \E deviation \in gini_deviations(agents) :
       LET history == record_ratings(rating_history, agents)
           res == get_results(agents, history, total_completions,
                              total_disputes, rounds, deviation)
       IN  /\ rating_history' = history
           /\ IF res.raises = "none"
              THEN results' = Append(results, res.value) /\ raised' = raised
              ELSE raised' = Append(raised, res.raises) /\ results' = results
    /\ RunLeave
    /\ UNCHANGED <<chat, agents, total_completions, total_disputes, last,
                   participated, processed, config>>

Next ==
    \/ \E p \in Ids, a \in Ids : ProcessInteraction(p, a)
    \/ RecordRatings
    \/ \E c \in RunChoices : RunBegin(c[1], c[2])
    \/ DrawFromNobody
    \/ \E p \in Ids, a \in Ids : DrawPair(p, a)
    \/ \E p \in Ids : DrawSame(p)
    \/ RedrawSame
    \/ \E a \in Ids : RedrawOther(a)
    \/ EndRound
    \/ Finish

Spec == Init /\ [][Next]_vars

\* the steps that take run() forward: every step of an active run but the
\* loop iteration that redraws the proposer itself
RunStep ==
    \/ DrawFromNobody
    \/ \E p \in Ids, a \in Ids : DrawPair(p, a)
    \/ \E p \in Ids : DrawSame(p)
    \/ \E a \in Ids : RedrawOther(a)
    \/ EndRound
    \/ Finish

\* the freshly constructed simulators
InitFresh == Init /\ warm = 0

\* run() is sequential code that keeps executing, and the random draws are
\* fair: whenever the redraw loop can draw another agent it eventually does
SpecFair == InitFresh /\ [][Next]_vars /\ WF_vars(RunStep)

(* ======================= properties ======================= *)
\* the parties, the state before and the stakes of the latest
\* process_interaction call
Before == last.before.agents
StakeBefore(id) == determine_stake(Before[id], enable_staking)
KBefore(id) == get_k_factor(Before[id].transactions)
BothComplete ==
    last.called /\ last.proposer_completes /\ last.acceptor_completes
NeitherCompletes ==
    last.called /\ ~last.proposer_completes /\ ~last.acceptor_completes
OneCompletes ==
    last.called /\ last.proposer_completes # last.acceptor_completes
Winner == IF last.proposer_completes THEN last.proposer ELSE last.acceptor
Loser == IF last.proposer_completes THEN last.acceptor ELSE last.proposer
Floor == Pts(MINIMUM_RATING)

\* C1: after any sequence of process_interaction calls on a freshly
\* constructed population, with staking enabled or disabled and for any
\* completion outcomes, every agent's rating is >= MINIMUM_RATING.
RatingFloor ==
    \A id \in Ids : agents[id].rating >= Floor

\* C1 witness: a party that was less than one point above the floor lost
\* and was clamped to the floor.
RatingFloorWitness ==
    /\ last.called
    /\ \E x \in {last.proposer, last.acceptor} :
          /\ Before[x].rating > Floor
          /\ Before[x].rating < Floor + Pts(1)
          /\ agents[x].disputes_lost = Before[x].disputes_lost + 1
          /\ agents[x].rating = Floor

\* C2 (as claimed): when exactly one party completes, one value
\* L = dispute_loss(loser, winner, loser's k) taken on the ratings held
\* before settlement gives both updates: winner + round(L/2) + loser_stake,
\* loser - (L + loser_stake) clamped at MINIMUM_RATING.
OneFaultSingleLoss ==
    OneCompletes =>
        LET L == calculate_dispute_loss(Before[Loser].rating,
                                        Before[Winner].rating, KBefore(Loser))
        IN  /\ agents[Winner].rating =
                 Before[Winner].rating + Pts(RoundHalfEven(L, 2)) + StakeBefore(Loser)
            /\ agents[Loser].rating =
                 Max(Floor, Before[Loser].rating - (Pts(L) + StakeBefore(Loser)))

\* C3: every process_interaction call, in each settlement branch and with
\* staking enabled or disabled, leaves each party's (and every agent's)
\* escrowed value as it was before the call.
EscrowTransient ==
    last.called => \A id \in Ids : agents[id].escrowed = Before[id].escrowed

\* C3 witness: a call with staking enabled in which both parties staked a
\* positive amount and neither completed.
EscrowTransientWitness ==
    /\ NeitherCompletes
    /\ enable_staking
    /\ StakeBefore(last.proposer) > 0
    /\ StakeBefore(last.acceptor) > 0

\* C4: in every state between interactions (process_interaction is one
\* step, so in every state, those inside run() included) every agent has
\* 0 <= escrowed <= rating - MINIMUM_RATING.
EscrowWithinHeadroom ==
    \A id \in Ids :
        /\ 0 <= agents[id].escrowed
        /\ agents[id].escrowed <= agents[id].rating - Floor

\* C4 witness: inside run(), after a pairing with staking enabled in which
\* a party staked a positive amount and a party fell to the floor, where
\* the headroom is 0.
EscrowWithinHeadroomWitness ==
    /\ pc = "pairing"
    /\ paired > 0
    /\ last.called
    /\ enable_staking
    /\ \E x \in {last.proposer, last.acceptor} : StakeBefore(x) > 0
    /\ \E x \in {last.proposer, last.acceptor} :
          Before[x].rating > Floor /\ agents[x].rating = Floor

\* C5: every process_interaction call adds exactly 1 to the transactions of
\* its proposer and of its acceptor, whatever the branch, and leaves every
\* other agent's count alone; so each agent's transactions is the number of
\* interactions it took part in.
TransactionsCounted ==
    /\ \A id \in Ids : agents[id].transactions = participated[id]
    /\ last.called =>
          \A id \in Ids :
              agents[id].transactions =
                  Before[id].transactions +
                  (IF id \in {last.proposer, last.acceptor} THEN 1 ELSE 0)

\* C5 witness: run() has returned after processing a pairing between two
\* agents of a population with a third agent that took part in nothing.
TransactionsCountedWitness ==
    /\ Len(results) > 0
    /\ results[1].rounds > 0
    /\ processed > warm
    /\ \E id \in Ids : participated[id] = 0
    /\ \E id \in Ids : participated[id] > warm

\* C6: when both parties complete, each rating rises by the party's own
\* completion_gain(own rating, other's rating, own k, halve_gains), both
\* taken on the ratings held before either update; both completions and
\* total_completions rise by 1; disputes_won, disputes_lost and
\* total_disputes are unchanged.
BothCompleteSettlement ==
    BothComplete =>
        LET p == last.proposer
            a == last.acceptor
        IN  /\ agents[p].rating = Before[p].rating + Pts(calculate_completion_gain(
                  Before[p].rating, Before[a].rating, KBefore(p), halve_gains))
            /\ agents[a].rating = Before[a].rating + Pts(calculate_completion_gain(
                  Before[a].rating, Before[p].rating, KBefore(a), halve_gains))
            /\ \A x \in {p, a} :
                  /\ agents[x].completions = Before[x].completions + 1
                  /\ agents[x].disputes_won = Before[x].disputes_won
                  /\ agents[x].disputes_lost = Before[x].disputes_lost
            /\ total_completions = last.before.total_completions + 1
            /\ total_disputes = last.before.total_disputes

\* C6 witness: both completed, starting from different ratings and
\* different k-factors.
BothCompleteSettlementWitness ==
    /\ BothComplete
    /\ Before[last.proposer].rating # Before[last.acceptor].rating
    /\ KBefore(last.proposer) # KBefore(last.acceptor)

\* C7: when neither party completes, each rating falls by
\* dispute_loss(own rating, other's rating, own k) + own stake, clamped at
\* MINIMUM_RATING, both losses taken on the ratings held before
\* settlement; both disputes_lost and total_disputes rise by 1; no rating
\* rises and nobody else's rating changes.
MutualFaultSettlement ==
    NeitherCompletes =>
        LET p == last.proposer
            a == last.acceptor
        IN  /\ agents[p].rating = Max(Floor, Before[p].rating -
                  (Pts(calculate_dispute_loss(Before[p].rating, Before[a].rating,
                                              KBefore(p))) + StakeBefore(p)))
            /\ agents[a].rating = Max(Floor, Before[a].rating -
                  (Pts(calculate_dispute_loss(Before[a].rating, Before[p].rating,
                                              KBefore(a))) + StakeBefore(a)))
            /\ \A x \in {p, a} :
                  /\ agents[x].disputes_lost = Before[x].disputes_lost + 1
                  /\ agents[x].disputes_won = Before[x].disputes_won
                  /\ agents[x].completions = Before[x].completions
            /\ total_disputes = last.before.total_disputes + 1
            /\ total_completions = last.before.total_completions
            /\ \A id \in Ids : agents[id].rating <= Before[id].rating

\* C7 witness: neither completed, with staking enabled, a positive stake
\* burned, and a third agent looking on.
MutualFaultSettlementWitness ==
    /\ NeitherCompletes
    /\ enable_staking
    /\ StakeBefore(last.proposer) > 0
    /\ Before[last.proposer].rating # Before[last.acceptor].rating
    /\ \E id \in Ids : id \notin {last.proposer, last.acceptor}

\* C9 (as claimed): run() on a simulator without agents, or with
\* rounds <= 0 or interactions_per_round <= 0, fails before any step: it
\* never gets as far as recording its first snapshot and entering the
\* loops, and never returns a result.
ConfigurationValidated ==
    /\ pc # "idle" =>
          Ids # {} /\ rounds > 0 /\ interactions_per_round > 0
    /\ \A i \in 1..Len(results) : results[i].rounds > 0

\* what a returned SimulationResult shows to its holder: the fields held by
\* value, and the lists its agents and rating_history fields refer to
ResultView(res, ags, history) ==
    [res EXCEPT !.agents = ags, !.rating_history = history]

\* C10 (as claimed): once run() has returned a SimulationResult, no later
\* operation on the simulator changes what that result shows.
ResultNeverMutated ==
    [][\A i \in 1..Len(results) :
          ResultView(results'[i], agents', rating_history') =
          ResultView(results[i], agents, rating_history)]_vars

(* ---------------- snapshots of a run ---------------- *)
\* the ratings of the agents now, as a snapshot
RatingsNow == [id \in Ids |-> agents[id].rating]
\* process_interaction calls the active run() has made
InteractionsOfRun == round_num * Max(0, interactions_per_round) + paired
\* the snapshots due after the pairings of the rounds 0..(n-1)
RoundSnapshots(n) == Cardinality({i \in 0..(n - 1) : i % 10 = 0})

\* inside run(rounds >= 1): the snapshots the run has appended are the one
\* taken on entry and one per finished round with an index that is a
\* multiple of 10
SnapshotsDuringRun ==
    pc # "idle" /\ rounds >= 1 =>
        /\ Len(rating_history) = history_base + 1 + RoundSnapshots(round_num)
        /\ InteractionsOfRun = 0 => rating_history[history_base + 1] = RatingsNow
        /\ (warm = 0 /\ processed = InteractionsOfRun) =>
              rating_history[history_base + 1] = [id \in Ids |-> Pts(1200)]
        /\ (pc = "pairing" /\ paired = 0 /\ round_num >= 1
                /\ (round_num - 1) % 10 = 0) =>
              rating_history[Len(rating_history)] = RatingsNow

\* run(rounds >= 1) returns its result: one more snapshot, of the final ratings
SnapshotsAtReturn ==
    (pc # "idle" /\ pc' = "idle" /\ rounds >= 1 /\ Len(results') > Len(results)) =>
        /\ Len(rating_history') = history_base + 2 + RoundSnapshots(rounds)
        /\ rating_history'[Len(rating_history')] = [id \in Ids |-> agents'[id].rating]
        /\ \A i \in 1..Len(rating_history) : rating_history'[i] = rating_history[i]

RedrawKeepsProposer ==
    pc = "redraw" =>
        \/ processed' = processed /\ proposer' = proposer
        \/ /\ processed' = processed + 1
           /\ last'.caller = "redraw"
           /\ last'.proposer = proposer
           /\ last'.acceptor # proposer

\* C12: every interaction run() passes to process_interaction has
\* proposer.id # acceptor.id; the proposer is the first agent drawn and is
\* kept when the drawn pair collides, only the acceptor being redrawn.
PairDistinct ==
    /\ [](last.called /\ last.caller # "idle" => last.proposer # last.acceptor)
    /\ [](pc = "redraw" => proposer \in Ids)
    /\ [][RedrawKeepsProposer]_vars

\* C12 witness: run() drew the same agent twice, redrew the acceptor and
\* processed the pair.
PairDistinctWitness ==
    /\ last.called
    /\ last.caller = "redraw"
    /\ last.proposer # last.acceptor
    /\ pc = "pairing"
    /\ paired = 1

(* ---------------- worked examples ---------------- *)
\* the latest call was made on two agents at 1200 with 0 transactions and
\* staking disabled
FreshPairNoStaking ==
    /\ last.called
    /\ ~enable_staking
    /\ \A x \in {last.proposer, last.acceptor} :
          Before[x].rating = Pts(1200) /\ Before[x].transactions = 0

\* C13: two agents at 1200 with 0 transactions, staking disabled and
\* halve_gains = True: if both complete both end at 1208; if neither
\* completes both end at 1184.
WorkedExampleSymmetric ==
    FreshPairNoStaking /\ halve_gains =>
        /\ BothComplete =>
              \A x \in {last.proposer, last.acceptor} : agents[x].rating = Pts(1208)
        /\ NeitherCompletes =>
              \A x \in {last.proposer, last.acceptor} : agents[x].rating = Pts(1184)

\* C13 witness: the both-complete call of the example has been made, with
\* halving in force.
WorkedExampleSymmetricWitness ==
    /\ FreshPairNoStaking
    /\ halve_gains
    /\ BothComplete
    /\ agents[last.proposer].rating = Pts(1208)
    /\ agents[last.acceptor].rating = Pts(1208)

\* C14: two agents at 1200 with 0 transactions and staking disabled: if
\* exactly one completes, the completing party ends at 1208 and the other at
\* 1184, whichever of them is the proposer.
WorkedExampleOneSided ==
    FreshPairNoStaking /\ OneCompletes =>
        /\ agents[Winner].rating = Pts(1208)
        /\ agents[Loser].rating = Pts(1184)

\* C14 witness: the call of the example in which the acceptor is the one
\* that completed.
WorkedExampleOneSidedWitness ==
    /\ FreshPairNoStaking
    /\ OneCompletes
    /\ Winner = last.acceptor
    /\ agents[last.acceptor].rating = Pts(1208)
    /\ agents[last.proposer].rating = Pts(1184)

(* ---------------- gain and loss ---------------- *)
\* the other party of the latest call
Counterparty(x) == IF x = last.proposer THEN last.acceptor ELSE last.proposer

\* the ratings the two functions are applied to, in quarter points: the
\* floor and a quarter point above it, the default and the values of the
\* worked examples, low, high and very high ratings
RatingSamples ==
    {Pts(100), Pts(100) + 1, Pts(150), Pts(400), Pts(1184), Pts(1200),
     Pts(1208), Pts(1500), Pts(2400), Pts(4000)}

\* both functions on every ordered pair of sample ratings
GainLossOnSamples ==
    \A x \in RatingSamples, y \in RatingSamples, k \in {16, 24, 32} :
        /\ \A halve \in BOOLEAN :
              LET gain == calculate_completion_gain(x, y, k, halve)
              IN  gain \in Nat /\ gain >= 1
        /\ LET loss == calculate_dispute_loss(x, y, k)
           IN  loss \in Nat /\ loss >= 1

KClaimed(t) == IF t < 30 THEN 32 ELSE IF t < 100 THEN 24 ELSE 16
KOwn(x) == KClaimed(Before[x].transactions)

\* C16: in every interaction the k-factor applied to a party is 32 if that
\* party's own transactions count before the interaction is < 30, 24 if it
\* is < 100 and 16 otherwise; it never depends on the counterparty's count,
\* and in the one-sided branch the k-factor inside L is the loser's.  Each
\* rating update is the one its branch computes with these k-factors (in the
\* one-sided branch the loser's loss is the one the code takes on the
\* winner's rating after the credit).
KFactorOwn ==
    /\ BothComplete =>
          \A x \in {last.proposer, last.acceptor} :
              agents[x].rating = Before[x].rating +
                  Pts(calculate_completion_gain(Before[x].rating,
                         Before[Counterparty(x)].rating, KOwn(x), halve_gains))
    /\ NeitherCompletes =>
          \A x \in {last.proposer, last.acceptor} :
              agents[x].rating = Max(Floor, Before[x].rating -
                  (Pts(calculate_dispute_loss(Before[x].rating,
                          Before[Counterparty(x)].rating, KOwn(x))) + StakeBefore(x)))
    /\ OneCompletes =>
          /\ agents[Winner].rating = Before[Winner].rating + StakeBefore(Loser) +
                Pts(RoundHalfEven(calculate_dispute_loss(Before[Loser].rating,
                        Before[Winner].rating, KOwn(Loser)), 2))
          /\ agents[Loser].rating = Max(Floor, Before[Loser].rating -
                (Pts(calculate_dispute_loss(Before[Loser].rating,
                        agents[Winner].rating, KOwn(Loser))) + StakeBefore(Loser)))

\* C16 witness: exactly one party completed; the loser, with 30
\* transactions, has k-factor 24 and the winner, with none, 32; the two
\* k-factors give different losses on these ratings.
KFactorOwnWitness ==
    /\ OneCompletes
    /\ Before[Loser].transactions = 30
    /\ Before[Winner].transactions = 0
    /\ calculate_dispute_loss(Before[Loser].rating, Before[Winner].rating, 24)
          # calculate_dispute_loss(Before[Loser].rating, Before[Winner].rating, 32)

(* ---------------- frame ---------------- *)
\* C17: process_interaction changes only the rating, escrowed and the
\* counters of its proposer and acceptor; id, agent_type, reliability and
\* stake_willingness of every agent, and every field of every
\* non-participant, are unchanged.
InteractionFrame ==
    last.called =>
        /\ DOMAIN agents = DOMAIN Before
        /\ \A id \in Ids :
              /\ agents[id].id = Before[id].id
              /\ agents[id].agent_type = Before[id].agent_type
              /\ agents[id].reliability = Before[id].reliability
              /\ agents[id].stake_willingness = Before[id].stake_willingness
        /\ \A id \in Ids \ {last.proposer, last.acceptor} :
              agents[id] = Before[id]

\* C17 witness: a call with staking enabled changed both parties' ratings
\* while a third agent looked on.
InteractionFrameWitness ==
    /\ last.called
    /\ enable_staking
    /\ Ids \ {last.proposer, last.acceptor} # {}
    /\ agents[last.proposer].rating # Before[last.proposer].rating
    /\ agents[last.acceptor].rating # Before[last.acceptor].rating
    /\ StakeBefore(last.proposer) > 0

(* ---------------- Gini coefficient ---------------- *)
\* C18 (as claimed): the Gini coefficient computed by get_results is exactly
\* 0 whenever all n >= 1 agents have the same rating (in particular for a
\* run in which no interaction changes any rating).
GiniZeroWhenEqual ==
    [][(/\ Len(results') = Len(results) + 1
        /\ \A x \in Ids, y \in Ids : agents[x].rating = agents[y].rating)
       => LET gini == results'[Len(results')].gini_coefficient
          IN  gini[1] = 0 /\ gini[3] = 0]_vars

(* ---------------- termination ---------------- *)
\* C19 (as claimed): for every configuration the spec treats as valid (at
\* least one agent, rounds >= 1, interactions_per_round >= 1), run()
\* terminates under fair random draws; in particular the
\* redraw-until-distinct loop always exits.
RunTerminates ==
    (pc # "idle" /\ Ids # {} /\ rounds >= 1 /\ interactions_per_round >= 1)
        ~> (pc = "idle")

\* with at least two agents run() does terminate under fair draws
RunTerminatesWithTwoAgents ==
    (pc # "idle" /\ Cardinality(Ids) >= 2) ~> (pc = "idle")

(* ---------------- outcome accounting ---------------- *)
\* C20: every process_interaction call increments exactly one of
\* total_completions and total_disputes, by exactly 1 (total_completions iff
\* both parties complete); so total_completions + total_disputes is the
\* number of interactions processed.
OutcomeAccounting ==
    /\ total_completions + total_disputes = processed
    /\ last.called =>
          IF last.proposer_completes /\ last.acceptor_completes
          THEN /\ total_completions = last.before.total_completions + 1
               /\ total_disputes = last.before.total_disputes
          ELSE /\ total_completions = last.before.total_completions
               /\ total_disputes = last.before.total_disputes + 1

\* C20 witness: after earlier disputes, a call in which exactly one party
\* completed was counted as one more dispute and no completion.
OutcomeAccountingWitness ==
    /\ OneCompletes
    /\ last.before.total_disputes > 0
    /\ total_disputes = last.before.total_disputes + 1
    /\ total_completions = 0

(* ---------------- stakes ---------------- *)
\* C21: with staking enabled each party's stake in an interaction satisfies
\* 0 <= stake <= min(rating - MINIMUM_RATING, 100) for the rating it holds
\* when the interaction starts; with staking disabled both stakes are 0,
\* escrowed is 0 before, inside (after the escrow step) and after every
\* interaction, and each settlement amount is the one without a stake term.
StakeBounds ==
    /\ ~enable_staking => \A id \in Ids : agents[id].escrowed = 0
    /\ (last.called /\ enable_staking) =>
          \A x \in {last.proposer, last.acceptor} :
              /\ 0 <= StakeBefore(x)
              /\ StakeBefore(x) <= Min(Before[x].rating - Floor, Pts(100))
    /\ (last.called /\ ~enable_staking) =>
          LET p == last.proposer
              a == last.acceptor
              escrowing == escrow_stakes(last.before, p, a,
                                         StakeBefore(p), StakeBefore(a))
          IN  /\ StakeBefore(p) = 0 /\ StakeBefore(a) = 0
              /\ \A id \in Ids : /\ Before[id].escrowed = 0
                                 /\ escrowing.agents[id].escrowed = 0
              /\ NeitherCompletes =>
                    \A x \in {p, a} :
                        agents[x].rating = Max(Floor, Before[x].rating -
                            Pts(calculate_dispute_loss(Before[x].rating,
                                    Before[Counterparty(x)].rating, KBefore(x))))
              /\ OneCompletes =>
                    /\ agents[Winner].rating = Before[Winner].rating +
                          Pts(RoundHalfEven(calculate_dispute_loss(
                                  Before[Loser].rating, Before[Winner].rating,
                                  KBefore(Loser)), 2))
                    /\ agents[Loser].rating = Max(Floor, Before[Loser].rating -
                          Pts(calculate_dispute_loss(Before[Loser].rating,
                                  agents[Winner].rating, KBefore(Loser))))

\* C21 witness: an interaction with staking enabled in which one party's
\* stake is held down to 100 by the cap, its headroom being larger, and the
\* other party's stake stays below the cap.
StakeBoundsWitness ==
    /\ last.called
    /\ enable_staking
    /\ \E x \in {last.proposer, last.acceptor} :
          /\ StakeBefore(x) = Pts(100)
          /\ Before[x].rating - Floor > Pts(100)
    /\ \E y \in {last.proposer, last.acceptor} : StakeBefore(y) < Pts(100)

(* ---------------- k-factor and the size of a rating change ---------------- *)
\* the absolute change of a party's rating in the last interaction
Swing(x) ==
    IF agents[x].rating >= Before[x].rating
    THEN agents[x].rating - Before[x].rating
    ELSE Before[x].rating - agents[x].rating
\* the stake that enters a party's settlement: none when both complete, the
\* party's own (burned) when neither does, the loser's (transferred) when
\* exactly one does
StakeMoved(x) ==
    IF BothComplete THEN 0
    ELSE IF NeitherCompletes THEN StakeBefore(x)
    ELSE StakeBefore(Loser)

\* C22 (as claimed): in any single interaction, in any branch and with
\* staking enabled or disabled, the absolute change of each party's rating
\* is at most that party's own k-factor for that interaction.
KFactorMaximumSwing ==
    last.called =>
        \A x \in {last.proposer, last.acceptor} : Swing(x) <= Pts(KOwn(x))

\* C22 (amended): the absolute change of each party's rating is at most the
\* party's own k-factor plus the stake that enters its settlement (its own
\* burned stake when neither completes, the loser's transferred stake when
\* exactly one completes, nothing when both complete), hence at most
\* k + MAX_STAKE; it is at most the own k-factor when both complete and
\* whenever staking is disabled.
KFactorSwingBesideStake ==
    last.called =>
        \A x \in {last.proposer, last.acceptor} :
            /\ Swing(x) <= Pts(KOwn(x)) + StakeMoved(x)
            /\ Swing(x) <= Pts(KOwn(x)) + Pts(100)
            /\ (BothComplete \/ ~enable_staking) => Swing(x) <= Pts(KOwn(x))

\* C22 witness: with staking enabled neither party completed and a party
\* with a positive stake lost more than its k-factor, the floor not being
\* reached.
KFactorSwingBesideStakeWitness ==
    /\ NeitherCompletes
    /\ enable_staking
    /\ \E x \in {last.proposer, last.acceptor} :
          /\ StakeBefore(x) > 0
          /\ Swing(x) > Pts(KOwn(x))
          /\ agents[x].rating > Floor

(* ---------------- experience ---------------- *)
\* get_k_factor on every count from 0 to past the second threshold: the
\* value after one more transaction is never higher
KFactorStepsDown ==
    \A t \in 0..(TRANSACTIONS_INTERMEDIATE + 1) :
        /\ get_k_factor(t) \in {32, 24, 16}
        /\ get_k_factor(t + 1) <= get_k_factor(t)

\* C23: across any run (and any sequence of direct process_interaction
\* calls) no step decreases or resets an agent's transactions counter, so
\* the k-factor applied to an agent in successive interactions is
\* non-increasing (32, then 24, then 16, never back).
ExperienceOnlyGrows ==
    /\ []KFactorStepsDown
    /\ [][\A id \in DOMAIN agents :
            /\ agents'[id].transactions >= agents[id].transactions
            /\ get_k_factor(agents'[id].transactions) <=
                  get_k_factor(agents[id].transactions)]_vars

\* C23 witness: inside run(), a pairing was processed for an agent that had
\* 30 earlier transactions: its k-factor, 32 when it was new, was 24 in this
\* interaction, and its counter went on to 31.
ExperienceOnlyGrowsWitness ==
    /\ pc = "pairing"
    /\ last.called
    /\ \E x \in {last.proposer, last.acceptor} :
          /\ Before[x].transactions = 30
          /\ KBefore(x) = 24
          /\ agents[x].transactions = 31

(* ---------------- per-agent ledger ---------------- *)
\* what the last interaction added to a party's three outcome counters
OutcomeDelta(x) ==
    <<agents[x].completions - Before[x].completions,
      agents[x].disputes_won - Before[x].disputes_won,
      agents[x].disputes_lost - Before[x].disputes_lost>>

\* C24: between interactions every agent satisfies
\* transactions = completions + disputes_won + disputes_lost, and each
\* interaction adds exactly 1 to exactly one of the three outcome counters
\* of each party (and nothing to anybody else's).
PerAgentLedger ==
    /\ \A id \in Ids :
          agents[id].transactions =
              agents[id].completions + agents[id].disputes_won
                  + agents[id].disputes_lost
    /\ last.called =>
          /\ \A x \in {last.proposer, last.acceptor} :
                OutcomeDelta(x) \in {<<1, 0, 0>>, <<0, 1, 0>>, <<0, 0, 1>>}
          /\ \A id \in Ids \ {last.proposer, last.acceptor} :
                OutcomeDelta(id) = <<0, 0, 0>>

\* C24 witness: exactly one party completed; the winner, which had lost
\* disputes before, has its first dispute won, and the loser one more
\* dispute lost.
PerAgentLedgerWitness ==
    /\ OneCompletes
    /\ Before[Winner].disputes_lost > 0
    /\ OutcomeDelta(Winner) = <<0, 1, 0>>
    /\ OutcomeDelta(Loser) = <<0, 0, 1>>
    /\ agents[Winner].transactions = Before[Winner].disputes_lost + 1

(* ---------------- stake transfer ---------------- *)
\* C25: when exactly one party completes with staking enabled, the loser's
\* rating decrease after clamping at MINIMUM_RATING is at least
\* loser_stake, the amount credited to the winner; the winner's own stake
\* enters neither rating: the winner's is its old rating plus its share of
\* the loss plus loser_stake, the loser's its old rating minus the loss and
\* loser_stake, clamped.
StakeTransferCovered ==
    (OneCompletes /\ enable_staking) =>
        LET loser_stake == StakeBefore(Loser)
            win_gain == RoundHalfEven(calculate_dispute_loss(
                Before[Loser].rating, Before[Winner].rating, KBefore(Loser)), 2)
            lose_loss == calculate_dispute_loss(
                Before[Loser].rating, agents[Winner].rating, KBefore(Loser))
        IN  /\ Before[Loser].rating - agents[Loser].rating >= loser_stake
            /\ agents[Winner].rating - Before[Winner].rating >= loser_stake
            /\ agents[Winner].rating =
                  Before[Winner].rating + Pts(win_gain) + loser_stake
            /\ agents[Loser].rating =
                  Max(Floor, Before[Loser].rating - (Pts(lose_loss) + loser_stake))

\* C25 witness: with staking enabled exactly one party completed; both had
\* staked a positive amount and the loser, whose loss plus stake exceeded
\* its headroom, was clamped to the floor.
StakeTransferCoveredWitness ==
    /\ OneCompletes
    /\ enable_staking
    /\ StakeBefore(Loser) > 0
    /\ StakeBefore(Winner) > 0
    /\ Before[Loser].rating > Floor
    /\ agents[Loser].rating = Floor

(***************************************************************************)
(* lib/chat.py and scripts/monitor.py: one reader and one writer on a      *)
(* daemon directory.  A step is one file operation (exists, read, write,   *)
(* unlink) with the Python statements around it.                           *)
(***************************************************************************)
\* messages the writer appends in a behaviour
MaxAppends == 2
\* timestamps the writer draws from: 1..MaxTs
MaxTs == 2
\* read_inbox(..., limit: int = 50, ...)
DEFAULT_LIMIT == 50

\* an inbox line: msg.get("ts", 0), msg.get("replay", False),
\* msg.get("from") == "@server"
Message(ts, replay, from_server) ==
    [ts |-> ts, replay |-> replay, from_server |-> from_server]

\* the lines the writer can append: a plain, a replay or an @server message
MessageChoices ==
    {Message(t, k[1], k[2]) :
        t \in 1..MaxTs, k \in {<<FALSE, FALSE>>, <<TRUE, FALSE>>, <<FALSE, TRUE>>}}

Range(seq) == {seq[k] : k \in DOMAIN seq}

\* messages.sort(key=lambda m: m.get("ts", 0)) on the lines S of box, given
\* by line number: the sort is stable, lines of equal ts stay in file order
SortByTs(box, S) ==
    LET Ahead(i) == {j \in S : \/ box[j].ts < box[i].ts
                               \/ box[j].ts = box[i].ts /\ j < i}
    IN  [k \in 1..Cardinality(S) |->
            CHOOSE i \in S : Cardinality(Ahead(i)) = k - 1]

\* messages[-limit:] if limit else messages
LastLimit(sorted, limit) ==
    IF limit = 0 \/ Len(sorted) <= limit THEN sorted
    ELSE SubSeq(sorted, Len(sorted) - limit + 1, Len(sorted))

\* fault injection: the lines with ts equal to since_ts are read again
read_inbox_inclusive(box, since_ts, limit, include_replay) ==
    LastLimit(SortByTs(box,
                  {i \in DOMAIN box :
                      /\ box[i].ts >= since_ts
                      /\ (include_replay \/ ~box[i].replay)}),
              limit)

\* read_inbox(paths, since_ts, limit, include_replay) on the inbox lines box
read_inbox(box, since_ts, limit, include_replay) ==
    LastLimit(SortByTs(box,
                  {i \in DOMAIN box :
                      /\ box[i].ts > since_ts
                      /\ (include_replay \/ ~box[i].replay)}),
              limit)

\* [m for m in messages if m.get("from") != "@server"]
without_server(box, msgs) ==
    SelectSeq(msgs, LAMBDA i : ~box[i].from_server)

\* monitor.py read_new_messages(): no replay and no @server lines, sorted,
\* without a limit
read_new_messages(box, since) ==
    SortByTs(box, {i \in DOMAIN box :
                      /\ box[i].ts > since
                      /\ ~box[i].replay
                      /\ ~box[i].from_server})

\* max(m.get("ts", 0) for m in messages), messages not empty
max_ts(box, msgs) ==
    CHOOSE t \in {box[i].ts : i \in Range(msgs)} :
        \A i \in Range(msgs) : t >= box[i].ts

\* the simulator plays no part in the daemon directory: none is constructed
NoSimulator ==
    /\ agents = <<>>
    /\ rating_history = <<>>
    /\ total_completions = 0
    /\ total_disputes = 0
    /\ halve_gains = TRUE
    /\ enable_staking = TRUE
    /\ pc = "idle"
    /\ rounds = 0
    /\ interactions_per_round = 0
    /\ round_num = 0
    /\ paired = 0
    /\ proposer = NoAgent
    /\ history_base = 0
    /\ results = <<>>
    /\ raised = <<>>
    /\ last = NoCall
    /\ participated = <<>>
    /\ processed = 0
    /\ warm = 0

\* a new daemon directory: no inbox lines, no last_ts file, no semaphore
InitChat ==
    /\ NoSimulator
    /\ NoDaemonDirectory

(* ---------------- the writer ---------------- *)
\* the writer appends one line to inbox.jsonl
WriterAppend(m) ==
    /\ wpc = "idle"
    /\ Len(inbox) < MaxAppends
    /\ inbox' = Append(inbox, m)
    /\ delivered' = Append(delivered, 0)
    /\ wpc' = "appended"
    /\ UNCHANGED <<elo, last_ts, newdata, rpc, messages, started_ts, initial_ts>>

\* and then creates the newdata semaphore
WriterSignal ==
    /\ wpc = "appended"
    /\ newdata' = TRUE
    /\ wpc' = "idle"
    /\ UNCHANGED <<elo, inbox, last_ts, rpc, messages, started_ts, initial_ts,
                   delivered>>

(* ---------------- the reader ---------------- *)
\* a call of the reader returns result
Return(result) ==
    /\ rpc' = "idle"
    /\ messages' = result
    /\ delivered' = [i \in DOMAIN delivered |->
                        IF i \in Range(result)
                        THEN Min(delivered[i] + 1, 2) ELSE delivered[i]]

\* poll_new: `if not paths["newdata"].exists(): return None`
PollBegin ==
    /\ rpc = "idle"
    /\ started_ts' = last_ts
    /\ IF newdata
       THEN /\ rpc' = "poll_read"
            /\ messages' = <<>>
            /\ UNCHANGED delivered
       ELSE Return(<<>>)
    /\ UNCHANGED <<elo, inbox, last_ts, newdata, wpc, initial_ts>>

\* poll_new: `messages = read_inbox(paths)`
PollRead ==
    /\ rpc = "poll_read"
    /\ messages' = read_inbox(inbox, last_ts, DEFAULT_LIMIT, FALSE)
    /\ rpc' = "poll_unlink"
    /\ UNCHANGED <<elo, inbox, last_ts, newdata, wpc, started_ts, initial_ts,
                   delivered>>

\* poll_new: `paths["newdata"].unlink()`, then `if messages:`, and
\* `return messages` when there are none
PollUnlink ==
    /\ rpc = "poll_unlink"
    /\ newdata' = FALSE
    /\ IF messages # <<>>
       THEN /\ rpc' = "poll_set"
            /\ UNCHANGED <<messages, delivered>>
       ELSE Return(messages)
    /\ UNCHANGED <<elo, inbox, last_ts, wpc, started_ts, initial_ts>>

\* poll_new: `set_last_ts(paths, max_ts)` and `return messages`
PollSetTs ==
    /\ rpc = "poll_set"
    /\ last_ts' = max_ts(inbox, messages)
    /\ Return(messages)
    /\ UNCHANGED <<elo, inbox, newdata, wpc, started_ts, initial_ts>>

\* wait_for_messages: up to the head of the while loop
WaitBegin ==
    /\ rpc = "idle"
    /\ started_ts' = last_ts
    /\ rpc' = "wait_loop"
    /\ messages' = <<>>
    /\ UNCHANGED <<elo, inbox, last_ts, newdata, wpc, initial_ts, delivered>>

\* wait_for_messages: no semaphore, `time.sleep(interval)`
WaitSleep ==
    /\ rpc = "wait_loop"
    /\ ~newdata
    /\ UNCHANGED vars

\* wait_for_messages: the loop ends by timeout, interrupt or stop file and
\* the call returns []
WaitGiveUp ==
    /\ rpc = "wait_loop"
    /\ Return(<<>>)
    /\ UNCHANGED <<elo, inbox, last_ts, newdata, wpc, started_ts, initial_ts>>

\* wait_for_messages: `if paths["newdata"].exists():`
WaitSee ==
    /\ rpc = "wait_loop"
    /\ newdata
    /\ rpc' = "wait_read"
    /\ UNCHANGED <<elo, inbox, last_ts, newdata, messages, wpc, started_ts,
                   initial_ts, delivered>>

\* wait_for_messages: `messages = read_inbox(paths)`, the @server filter
\* and `if messages:`
WaitRead ==
    /\ rpc = "wait_read"
    /\ messages' = without_server(inbox,
                       read_inbox(inbox, last_ts, DEFAULT_LIMIT, FALSE))
    /\ rpc' = IF messages' # <<>> THEN "wait_set" ELSE "wait_clear"
    /\ UNCHANGED <<elo, inbox, last_ts, newdata, wpc, started_ts, initial_ts,
                   delivered>>

\* wait_for_messages: `set_last_ts(paths, max_ts)`
WaitSetTs ==
    /\ rpc = "wait_set"
    /\ last_ts' = max_ts(inbox, messages)
    /\ rpc' = "wait_unlink"
    /\ UNCHANGED <<elo, inbox, newdata, messages, wpc, started_ts, initial_ts,
                   delivered>>

\* wait_for_messages: "Clear semaphore" and `return messages`
WaitUnlink ==
    /\ rpc = "wait_unlink"
    /\ newdata' = FALSE
    /\ Return(messages)
    /\ UNCHANGED <<elo, inbox, last_ts, wpc, started_ts, initial_ts>>

\* wait_for_messages: "Semaphore but no messages after filtering - clear
\* and continue"
WaitClear ==
    /\ rpc = "wait_clear"
    /\ newdata' = FALSE
    /\ rpc' = "wait_loop"
    /\ UNCHANGED <<elo, inbox, last_ts, messages, wpc, started_ts, initial_ts,
                   delivered>>

\* monitor.py main: up to the head of the while loop
MonitorBegin ==
    /\ rpc = "idle"
    /\ started_ts' = last_ts
    /\ rpc' = "monitor_loop"
    /\ messages' = <<>>
    /\ UNCHANGED <<elo, inbox, last_ts, newdata, wpc, initial_ts, delivered>>

\* monitor.py main: no semaphore, `time.sleep(interval)`
MonitorSleep ==
    /\ rpc = "monitor_loop"
    /\ ~newdata
    /\ UNCHANGED vars

\* monitor.py main: the loop ends by timeout, signal or stop file; nothing
\* is printed
MonitorGiveUp ==
    /\ rpc = "monitor_loop"
    /\ Return(<<>>)
    /\ UNCHANGED <<elo, inbox, last_ts, newdata, wpc, started_ts, initial_ts>>

\* monitor.py main: `if NEWDATA.exists():`
MonitorSee ==
    /\ rpc = "monitor_loop"
    /\ newdata
    /\ rpc' = "monitor_read"
    /\ UNCHANGED <<elo, inbox, last_ts, newdata, messages, wpc, started_ts,
                   initial_ts, delivered>>

\* monitor.py main: `messages = read_new_messages()` and `if messages:`
MonitorRead ==
    /\ rpc = "monitor_read"
    /\ messages' = read_new_messages(inbox, last_ts)
    /\ rpc' = IF messages' # <<>> THEN "monitor_set" ELSE "monitor_clear"
    /\ UNCHANGED <<elo, inbox, last_ts, newdata, wpc, started_ts, initial_ts,
                   delivered>>

\* monitor.py main: `set_last_ts(max_ts)`
MonitorSetTs ==
    /\ rpc = "monitor_set"
    /\ last_ts' = max_ts(inbox, messages)
    /\ rpc' = "monitor_unlink"
    /\ UNCHANGED <<elo, inbox, newdata, messages, wpc, started_ts, initial_ts,
                   delivered>>

\* monitor.py main: "Delete semaphore", print the messages and return
MonitorUnlink ==
    /\ rpc = "monitor_unlink"
    /\ newdata' = FALSE
    /\ Return(messages)
    /\ UNCHANGED <<elo, inbox, last_ts, wpc, started_ts, initial_ts>>

\* monitor.py main: "Semaphore but no new messages after filtering"
MonitorClear ==
    /\ rpc = "monitor_clear"
    /\ newdata' = FALSE
    /\ rpc' = "monitor_loop"
    /\ UNCHANGED <<elo, inbox, last_ts, messages, wpc, started_ts, initial_ts,
                   delivered>>

\* check_new(paths, update_ts=True): `messages = read_inbox(paths)`,
\* `if messages and update_ts:`, and `return messages` when there are none
CheckRead ==
    /\ rpc = "idle"
    /\ started_ts' = last_ts
    /\ LET read == read_inbox(inbox, last_ts, DEFAULT_LIMIT, FALSE)
       IN  IF read # <<>>
           THEN /\ rpc' = "check_set"
                /\ messages' = read
                /\ UNCHANGED delivered
           ELSE Return(read)
    /\ UNCHANGED <<elo, inbox, last_ts, newdata, wpc, initial_ts>>

\* check_new: `set_last_ts(paths, max_ts)` and `return messages`
CheckSetTs ==
    /\ rpc = "check_set"
    /\ last_ts' = max_ts(inbox, messages)
    /\ Return(messages)
    /\ UNCHANGED <<elo, inbox, newdata, wpc, started_ts, initial_ts>>

NextChat ==
    \/ \E m \in MessageChoices : WriterAppend(m)
    \/ WriterSignal
    \/ PollBegin
    \/ PollRead
    \/ PollUnlink
    \/ PollSetTs
    \/ WaitBegin
    \/ WaitSleep
    \/ WaitGiveUp
    \/ WaitSee
    \/ WaitRead
    \/ WaitSetTs
    \/ WaitUnlink
    \/ WaitClear
    \/ MonitorBegin
    \/ MonitorSleep
    \/ MonitorGiveUp
    \/ MonitorSee
    \/ MonitorRead
    \/ MonitorSetTs
    \/ MonitorUnlink
    \/ MonitorClear
    \/ CheckRead
    \/ CheckSetTs

\* one writer and one reader on a new daemon directory
SpecChat == InitChat /\ [][NextChat]_vars

(* ---------------- wake-up ---------------- *)
\* lines every reader would return and this reader has not: not a replay,
\* not from @server, ts > last_ts, returned by no call
Unread ==
    {i \in DOMAIN inbox :
        /\ ~inbox[i].replay
        /\ ~inbox[i].from_server
        /\ inbox[i].ts > last_ts
        /\ delivered[i] = 0}

\* C26 (as claimed): with a writer that appends a line and then creates the
\* newdata semaphore, and one reader running poll_new, wait_for_messages or
\* the monitor loop, whenever no reader step is in progress (the reader is
\* between calls or asleep in its loop) and the inbox holds a non-replay
\* message with ts > last_ts that the reader has not returned, the semaphore
\* exists.  The claim is taken in the reading most favourable to the code:
\* the writer has finished its signal, and the @server lines, which
\* wait_for_messages and the monitor drop on purpose, are not counted.
NoLostWakeUp ==
    (/\ rpc \in {"idle", "wait_loop", "monitor_loop"}
     /\ wpc = "idle"
     /\ Unread # {})
        => newdata

(* ---------------- check_new on an inbox nobody writes to ---------------- *)
\* an inbox of limit + 1 plain lines with the timestamps 1, 2, ...
Backlog == [i \in 1..(DEFAULT_LIMIT + 1) |-> Message(i, FALSE, FALSE)]

\* the inbox contents a sequence of check_new calls starts on: every
\* sequence of up to MaxAppends lines, and the backlog
InboxChoices ==
    UNION {[1..n -> MessageChoices] : n \in 0..MaxAppends} \cup {Backlog}

\* any of these inboxes and any last_ts; no call has been made
InitCheckNew ==
    /\ NoSimulator
    /\ \E box \in InboxChoices, ts \in 0..MaxTs :
          /\ inbox = box
          /\ last_ts = ts
          /\ initial_ts = ts
          /\ started_ts = ts
          /\ delivered = [i \in DOMAIN box |-> 0]
    /\ newdata = FALSE
    /\ rpc = "idle"
    /\ messages = <<>>
    /\ wpc = "idle"

\* check_new(paths) is called again and again; nothing else runs
NextCheckNew ==
    \/ CheckRead
    \/ CheckSetTs

\* the calls are made one after the other without end, and each one runs
\* to its return
SpecCheckNew ==
    InitCheckNew /\ [][NextCheckNew]_vars /\ WF_vars(NextCheckNew)

\* the lines check_new owes the reader: not a replay, ts above the initial
\* last_ts
Owed == {i \in DOMAIN inbox : ~inbox[i].replay /\ inbox[i].ts > initial_ts}

\* C27 (as claimed): for any inbox contents and any initial last_ts, with
\* no further writes, repeated check_new calls (update_ts = True, default
\* limit) together return every non-replay inbox message whose ts is
\* greater than the initial last_ts, and no such message is skipped when
\* last_ts is advanced: a line at or below last_ts has been returned.
EventualDelivery ==
    /\ <>[](\A i \in Owed : delivered[i] >= 1)
    /\ [](\A i \in Owed : inbox[i].ts <= last_ts => delivered[i] >= 1)

\* what does hold: the lines are all returned when at most limit of them
\* are owed
EventualDeliveryWithinLimit ==
    (Cardinality(Owed) <= DEFAULT_LIMIT) ~> (\A i \in Owed : delivered[i] >= 1)

(* ---------------- at-most-once delivery ---------------- *)
\* C28: for one reader making any sequence of check_new(update_ts=True),
\* poll_new and wait_for_messages calls (and monitor runs), interleaved with
\* appends to the inbox, no inbox line is returned by more than one call,
\* every line a call holds or has returned has ts greater than the last_ts
\* in force when the call started, and no step decreases last_ts.
AtMostOnceDelivery ==
    /\ [](\A i \in DOMAIN inbox : delivered[i] <= 1)
    /\ [](\A i \in Range(messages) : inbox[i].ts > started_ts)
    /\ [][last_ts' >= last_ts]_vars

\* C28 witness: a call that started with last_ts above 0 has returned a
\* line, an earlier call had returned another line, and a line appended
\* with a ts not above last_ts has been returned by no call.
AtMostOnceDeliveryWitness ==
    /\ rpc = "idle"
    /\ started_ts > 0
    /\ messages # <<>>
    /\ \A i \in Range(messages) : delivered[i] = 1
    /\ \E j \in DOMAIN inbox : j \notin Range(messages) /\ delivered[j] = 1


====
